---- MODULE Spec2Model ----
(***************************************************************************)
(* hncli: a terminal client for Hacker News.                               *)
(*                                                                         *)
(* The module models the TTL cache (cache.py), the remote client           *)
(* (get_story_ids / get_item / get_user in hncli/cli.py), the two          *)
(* interactive pagination loops (browse_stories and search in              *)
(* hncli/cli.py), the comment navigator and the settings (config.py).      *)
(*                                                                         *)
(* SpecClient exercises the cache and the three client operations under a  *)
(* moving clock; Spec is one CLI session (top/new/best or search);         *)
(* SpecDisk is the cache with its on-disk mirror across process restarts,  *)
(* with failing disk operations; SpecKey is cache_key on pairs of client   *)
(* requests; SpecNav is the comment navigator of display_comments;         *)
(* SpecConfig is the config file under get_setting, config_set and         *)
(* config_reset; SpecTty is the terminal under the key reads of the        *)
(* navigator.                                                              *)
(***************************************************************************)
EXTENDS Integers, Sequences, FiniteSets, TLC

VARIABLES
    cache,            \* cache._cache : key -> [timestamp, value]
    now,              \* time.time(), in seconds
    last,             \* record of the last completed cache/client call
    command,          \* which CLI command the session runs
    limit,            \* the --limit option: <<>> when not given, else <<n>>
    pc,               \* position of the session
    story_ids,        \* browse: story_ids; search: ids of matching_stories
    total_stories,
    current_page,
    total_pages,
    stories_per_page,
    rows,             \* terminal height seen by shutil.get_terminal_size()
    page_ids,         \* the slice of ids materialized by the last render
    fails,            \* ids whose HTTP GET fails during the last load
    served,           \* keys answered from the cache during the last render
    stories,          \* ids of the stories handed to display_stories
    errlines,         \* ids for which "Error fetching story" was printed
    out,              \* effect of the last command: opened story / message
    refreshed,        \* has the 'r' command of browse_stories run
    written,          \* history: key -> [at, value] of the cache.set calls
                      \* made since the last cache.clear()
    disk,             \* ~/.cache/hncli: file name -> content of the file
    faults,           \* history: disk operations that have failed so far
    probe,            \* two cache.cache_key calls and the keys they returned
    nav,              \* display_comments: the comment navigator
    cfg,              \* config.py: the config file, DEFAULT_CONFIG, last call
    tty               \* the terminal under get_key / read_single_keypress

vars == <<cache, now, last, command, limit, pc, story_ids, total_stories,
          current_page, total_pages, stories_per_page, rows, page_ids,
          fails, served, stories, errlines, out, refreshed, written,
          disk, faults, probe, nav, cfg, tty>>

pageState == <<story_ids, total_stories, current_page, total_pages,
               stories_per_page>>

sessionVars == <<command, limit, pc, pageState, rows, page_ids, fails,
                 served, stories, errlines, out, refreshed>>

diskVars == <<disk, faults>>

restVars == <<cfg, tty>>

(* what neither the remote client nor a pagination session touches *)
otherVars == <<diskVars, probe, nav, restVars>>

----------------------------------------------------------------------------
(* Bounds of the model *)

MaxTime == 450          \* the clock stops advancing here
TickSeconds == 150      \* granularity of the clock

(* config.DEFAULT_CONFIG["cache_timeout_minutes"] *)
cache_timeout_minutes == 5

Min(a, b) == IF a < b THEN a ELSE b
Max(a, b) == IF a > b THEN a ELSE b

----------------------------------------------------------------------------
(* Values: Python None, a JSON list of ids, a JSON object *)

None == [kind |-> "None"]
ListVal(ids) == [kind |-> "list", ids |-> ids]
ItemVal(id, type) == [kind |-> "item", id |-> id, type |-> type]
UserVal(name) == [kind |-> "user", id |-> name]

(* Python truth value of a value: None, [] are falsy *)
Truthy(v) ==
    CASE v.kind = "None" -> FALSE
      [] v.kind = "list" -> v.ids /= <<>>
      [] OTHER -> TRUE

----------------------------------------------------------------------------
(* cache.py *)

(* f"{prefix}_{'-'.join(str(arg) for arg in args)}", one argument *)
cache_key_NoPrefix(prefix, arg) == "key_" \o arg

cache_key(prefix, arg) == prefix \o "_" \o arg

get_LE(c, key, ttl, t) ==
    IF key \in DOMAIN c /\ t - c[key].timestamp <= ttl
    THEN c[key].value
    ELSE None

get(c, key, ttl, t) ==
    IF key \in DOMAIN c
    THEN IF t - c[key].timestamp < ttl THEN c[key].value ELSE None
    ELSE None

set(c, key, value, t) ==
    (key :> [timestamp |-> t, value |-> value]) @@ c

clear_Keep(c) == c

clear(c) == <<>>

----------------------------------------------------------------------------
(* hncli/cli.py: configuration and remote client *)

(* get_config_value("cache_timeout_minutes", 5) * 60 *)
Ttl == cache_timeout_minutes * 60

(* hncli/errors.py and requests.exceptions: each exception class with its  *)
(* direct base class                                                       *)
ExceptionBase ==
    ("APIRequestError" :> "HNCLIError") @@ ("HNCLIError" :> "Exception")
    @@ ("HTTPError" :> "RequestException")
    @@ ("RequestException" :> "OSError") @@ ("OSError" :> "Exception")

RECURSIVE IsInstance(_, _)
IsInstance(exc, cls) ==
    \/ exc = cls
    \/ exc \in DOMAIN ExceptionBase /\ IsInstance(ExceptionBase[exc], cls)

(* An HTTP response: requests.get raises RequestException (transport       *)
(* failure), response.raise_for_status() raises HTTPError (non-2xx         *)
(* status), or the response carries a JSON body                            *)
Failed == [ok |-> FALSE, body |-> None, exc |-> "RequestException"]
BadStatus == [ok |-> FALSE, body |-> None, exc |-> "HTTPError"]
Ok(body) == [ok |-> TRUE, body |-> body]

(* Result of a client call: the cache afterwards, the value returned,      *)
(* whether the call raised, how many HTTP GETs it issued and whether the   *)
(* value was read from the cache.                                          *)
(* exc is the class of the exception that leaves the call: the client     *)
(* wraps requests.get and raise_for_status in no try/except                *)
Hit(c, v) ==
    [cache |-> c, result |-> v, raised |-> FALSE, http |-> 0, exc |-> "none"]
Raise(c, resp) ==
    [cache |-> c, result |-> None, raised |-> TRUE, http |-> 1,
     exc |-> resp.exc]
Fetched(c, v) ==
    [cache |-> c, result |-> v, raised |-> FALSE, http |-> 1, exc |-> "none"]

get_story_ids(c, story_type, t, resp) ==
    LET key == cache_key("stories", story_type)
        cached == get(c, key, Ttl, t)
    IN  IF Truthy(cached) THEN Hit(c, cached)
        ELSE IF ~resp.ok THEN Raise(c, resp)
        ELSE Fetched(set(c, key, resp.body, t), resp.body)

get_item(c, item_id, t, resp) ==
    LET key == cache_key("item", ToString(item_id))
        cached == get(c, key, Ttl, t)
    IN  IF Truthy(cached) THEN Hit(c, cached)
        ELSE IF ~resp.ok THEN Raise(c, resp)
        ELSE Fetched(set(c, key, resp.body, t), resp.body)

get_user(c, username, t, resp) ==
    LET key == cache_key("user", username)
        cached == get(c, key, Ttl, t)
    IN  IF Truthy(cached) THEN Hit(c, cached)
        ELSE IF ~resp.ok THEN Raise(c, resp)
        ELSE Fetched(set(c, key, resp.body, t), resp.body)

----------------------------------------------------------------------------
(* History bookkeeping *)

NoCall == [op |-> "none", key |-> "", ttl |-> 0, at |-> 0, result |-> None,
           raised |-> FALSE, http |-> 0, fresh |-> FALSE, exc |-> "none"]

(* the cache holds an entry for key that is younger than ttl *)
HoldsFresh(c, key, ttl, t) ==
    key \in DOMAIN c /\ t - c[key].timestamp < ttl

EmptyLog == <<>>

Log(w, key, value, t) == (key :> [at |-> t, value |-> value]) @@ w

(* the log after a client call r on key *)
LogCall(w, key, r, t) ==
    IF r.http = 1 /\ ~r.raised THEN Log(w, key, r.result, t) ELSE w

ClientCall(op, key, r, c) ==
    [op |-> op, key |-> key, ttl |-> Ttl, at |-> now, result |-> r.result,
     raised |-> r.raised, http |-> r.http,
     fresh |-> HoldsFresh(c, key, Ttl, now), exc |-> r.exc]

----------------------------------------------------------------------------
(* SpecClient: the cache module and the remote client under a moving clock *)

StoryTypes == {"top"}
ItemIds == {1}
UserNames == {"pg"}

StoryBodies == {ListVal(<<>>), ListVal(<<1, 2>>)}
ItemBodies(id) == {None, ItemVal(id, "story")}
UserBodies(name) == {None, UserVal(name)}

ClientKeys ==
    {cache_key("stories", t) : t \in StoryTypes}
    \cup {cache_key("item", ToString(i)) : i \in ItemIds}
    \cup {cache_key("user", u) : u \in UserNames}

TtlChoices == {TickSeconds, Ttl}

(* what the HTTP GET of a client call may come back with *)
Responses(bodies) == {Failed, BadStatus} \cup {Ok(b) : b \in bodies}

(* the command read by show_navigation_menu and what it caused *)
NoCommand == [cmd |-> "", arg |-> 0, opened |-> 0, msg |-> ""]

IdleSession ==
    /\ command = "none"
    /\ limit = <<>>
    /\ pc = "idle"
    /\ story_ids = <<>>
    /\ total_stories = 0
    /\ current_page = 1
    /\ total_pages = 0
    /\ stories_per_page = 10
    /\ rows = 24
    /\ page_ids = <<>>
    /\ fails = {}
    /\ served = {}
    /\ stories = <<>>
    /\ errlines = <<>>
    /\ out = NoCommand
    /\ refreshed = FALSE

(* the components a specification leaves out stay as constructed *)
NoFiles == <<>>
NoProbe == <<>>
NoNav == [view |-> "Idle"]
NoConfig == <<>>
NoTty == <<>>

IdleRest ==
    /\ cfg = NoConfig
    /\ tty = NoTty

IdleOther ==
    /\ disk = NoFiles
    /\ faults = 0
    /\ probe = NoProbe
    /\ nav = NoNav
    /\ IdleRest

(* load_cache_from_disk(): the files left by an earlier process *)
DiskCaches ==
    {EmptyLog,
     [k \in {cache_key("item", "1")} |->
        [timestamp |-> 0, value |-> ItemVal(1, "story")]]}

InitClient ==
    /\ cache \in DiskCaches
    /\ now = 0
    /\ last = NoCall
    /\ written = EmptyLog
    /\ IdleSession
    /\ IdleOther

(* time passes between two calls *)
Tick ==
    /\ now < MaxTime
    /\ now' = now + TickSeconds
    /\ UNCHANGED <<cache, last, written, sessionVars, otherVars>>

CacheGet ==
    \E key \in ClientKeys, ttl \in TtlChoices :
        /\ last' = [op |-> "get", key |-> key, ttl |-> ttl, at |-> now,
                    result |-> get(cache, key, ttl, now),
                    raised |-> FALSE, http |-> 0,
                    fresh |-> HoldsFresh(cache, key, ttl, now),
                    exc |-> "none"]
        /\ UNCHANGED <<cache, now, written, sessionVars, otherVars>>

CacheClear ==
    /\ cache' = clear(cache)
    /\ written' = EmptyLog
    /\ last' = [NoCall EXCEPT !.op = "clear"]
    /\ UNCHANGED <<now, sessionVars, otherVars>>

GetStoryIds ==
    \E t \in StoryTypes, resp \in Responses(StoryBodies) :
        LET r == get_story_ids(cache, t, now, resp)
            key == cache_key("stories", t)
        IN  /\ cache' = r.cache
            /\ written' = LogCall(written, key, r, now)
            /\ last' = ClientCall("get_story_ids", key, r, cache)
            /\ UNCHANGED <<now, sessionVars, otherVars>>

GetItem ==
    \E i \in ItemIds :
      \E resp \in Responses(ItemBodies(i)) :
        LET r == get_item(cache, i, now, resp)
            key == cache_key("item", ToString(i))
        IN  /\ cache' = r.cache
            /\ written' = LogCall(written, key, r, now)
            /\ last' = ClientCall("get_item", key, r, cache)
            /\ UNCHANGED <<now, sessionVars, otherVars>>

GetUser ==
    \E u \in UserNames :
      \E resp \in Responses(UserBodies(u)) :
        LET r == get_user(cache, u, now, resp)
            key == cache_key("user", u)
        IN  /\ cache' = r.cache
            /\ written' = LogCall(written, key, r, now)
            /\ last' = ClientCall("get_user", key, r, cache)
            /\ UNCHANGED <<now, sessionVars, otherVars>>

NextClient ==
    \/ Tick
    \/ CacheGet
    \/ CacheClear
    \/ GetStoryIds
    \/ GetItem
    \/ GetUser

SpecClient == InitClient /\ [][NextClient]_vars

----------------------------------------------------------------------------
(* hncli/cli.py: pagination *)

RESERVED_ROWS == 8
MIN_STORIES == 10
MAX_STORIES == 20

calculate_stories_per_page(r) ==
    LET available_rows == Max(r - RESERVED_ROWS, 1)
    IN  Max(MIN_STORIES, Min(available_rows, MAX_STORIES))

(* (total_stories + stories_per_page - 1) // stories_per_page *)
TotalPages_Floor(total, spp) == total \div spp

TotalPages(total, spp) == (total + spp - 1) \div spp

(* Python's s[start:stop] for a list s, negative indices included *)
PyIndex(i, n) == IF i < 0 THEN Max(i + n, 0) ELSE Min(i, n)

PySlice(s, start, stop) ==
    LET lo == PyIndex(start, Len(s))
        hi == PyIndex(stop, Len(s))
    IN  IF lo < hi THEN SubSeq(s, lo + 1, hi) ELSE <<>>

start_idx(page, spp) == (page - 1) * spp

end_idx(page, spp, total) == Min(start_idx(page, spp) + spp, total)

(* story_ids[start_idx:end_idx] *)
PageSlice(ids, page, spp, total) ==
    PySlice(ids, start_idx(page, spp), end_idx(page, spp, total))

(* the recalculation at the top of both loops: the page state in use when  *)
(* the terminal has r rows                                                 *)
Recalculate(page, pages, spp, total, r) ==
    LET n == calculate_stories_per_page(r)
    IN  IF spp = n
        THEN [current_page |-> page, total_pages |-> pages,
              stories_per_page |-> spp]
        ELSE [current_page |-> Min(page, TotalPages(total, n)),
              total_pages |-> TotalPages(total, n),
              stories_per_page |-> n]

----------------------------------------------------------------------------
(* The remote service seen by one session *)

MaxItems == 25          \* the longest story list the service returns
MaxFail == 1            \* most HTTP GETs that fail during one load

Ids(n) == [i \in 1..n |-> i]

ListLens == {0, MIN_STORIES, MaxItems}
ServerLists == {ListVal(Ids(n)) : n \in ListLens}
ListResponses == {Failed} \cup {Ok(b) : b \in ServerLists}

NullItems == {3}        \* GET item/<id>.json answers null
JobItems == {4}         \* items whose type is not "story"

ItemBody(id) ==
    IF id \in NullItems THEN None
    ELSE IF id \in JobItems THEN ItemVal(id, "job")
    ELSE ItemVal(id, "story")

(* the search query occurs in the title or text of the item *)
Matches(id) == id % 5 /= 0

RECURSIVE SubsetsUpTo(_, _)
SubsetsUpTo(S, k) ==
    IF k = 0 THEN {{}}
    ELSE LET P == SubsetsUpTo(S, k - 1)
         IN  P \cup {T \cup {x} : T \in P, x \in S}

Range(s) == {s[i] : i \in 1..Len(s)}

(* ids whose HTTP GET may fail; every other GET succeeds *)
FlakyItems == {2, 12}

RowsChoices == {10, 19, 30}
Limits == {<<>>, <<5>>}

----------------------------------------------------------------------------
(* browse_stories *)

NoPage == [cache |-> EmptyLog, stories |-> <<>>, errs |-> <<>>,
           served |-> {}, log |-> EmptyLog, aborted |-> FALSE]

Front(s) == SubSeq(s, 1, Len(s) - 1)

(* one pass of the body of "for story_id in story_ids[start_idx:end_idx]": *)
(* get_item(id), kept when it is a story, an error line when it raises;    *)
(* F is the set of ids whose HTTP GET fails                                *)
LoadOne_Abort(acc, id, t, F) ==
    IF acc.aborted THEN acc
    ELSE
      LET key == cache_key("item", ToString(id))
          r == get_item(acc.cache, id, t,
                        IF id \in F THEN Failed ELSE Ok(ItemBody(id)))
          isStory == ~r.raised /\ Truthy(r.result) /\ r.result.type = "story"
      IN  [cache |-> r.cache,
           stories |-> IF isStory THEN Append(acc.stories, id)
                       ELSE acc.stories,
           errs |-> IF r.raised THEN Append(acc.errs, id) ELSE acc.errs,
           served |-> IF r.http = 0 THEN acc.served \cup {key}
                      ELSE acc.served,
           log |-> LogCall(acc.log, key, r, t),
           aborted |-> r.raised]

LoadOne(acc, id, t, F) ==
    LET key == cache_key("item", ToString(id))
        r == get_item(acc.cache, id, t,
                      IF id \in F THEN Failed ELSE Ok(ItemBody(id)))
        isStory == ~r.raised /\ Truthy(r.result) /\ r.result.type = "story"
    IN  [cache |-> r.cache,
         stories |-> IF isStory THEN Append(acc.stories, id)
                     ELSE acc.stories,
         errs |-> IF r.raised THEN Append(acc.errs, id) ELSE acc.errs,
         served |-> IF r.http = 0 THEN acc.served \cup {key}
                    ELSE acc.served,
         log |-> LogCall(acc.log, key, r, t),
         aborted |-> FALSE]

(* the whole loop over the ids of the page, in list order; the except      *)
(* clause keeps the loop going, so the body never sets aborted             *)
RECURSIVE LoadPage(_, _, _, _)
LoadPage(ids, acc, t, F) ==
    IF ids = <<>> THEN acc
    ELSE LET before == LoadPage(Front(ids), acc, t, F)
         IN  IF before.aborted THEN before
             ELSE LoadOne(before, ids[Len(ids)], t, F)

(* the ids of a page for which get_item has to go to the network *)
Misses(c, ids, t) ==
    {id \in Range(ids) :
        ~Truthy(get(c, cache_key("item", ToString(id)), Ttl, t))}

BrowseTypes == {"top"}

Init ==
    /\ cache \in {EmptyLog,
                  [k \in {cache_key("stories", "top")} |->
                     [timestamp |-> 0, value |-> ListVal(Ids(MIN_STORIES))]]}
    /\ now = 0
    /\ last = NoCall
    /\ written = EmptyLog
    /\ IdleOther
    /\ command \in BrowseTypes \cup {"search"}
    /\ limit \in Limits
    /\ pc = "start"
    /\ story_ids = <<>>
    /\ total_stories = 0
    /\ current_page = 1
    /\ total_pages = 0
    /\ stories_per_page = 0
    /\ rows \in RowsChoices
    /\ page_ids = <<>>
    /\ fails = {}
    /\ served = {}
    /\ stories = <<>>
    /\ errlines = <<>>
    /\ out = NoCommand
    /\ refreshed = FALSE

(* cli.py 443-454: the page size, the first fetch of the id list *)
BrowseStart ==
    /\ pc = "start"
    /\ command \in BrowseTypes
    /\ \E resp \in ListResponses :
         LET spp == IF limit = <<>> THEN calculate_stories_per_page(rows)
                    ELSE limit[1]
             key == cache_key("stories", command)
             r == get_story_ids(cache, command, now, resp)
         IN  /\ cache' = r.cache
             /\ written' = LogCall(written, key, r, now)
             /\ last' = ClientCall("get_story_ids", key, r, cache)
             /\ stories_per_page' = spp
             /\ IF r.raised
                THEN /\ pc' = "crashed"
                     /\ UNCHANGED <<story_ids, total_stories, current_page,
                                    total_pages>>
                ELSE /\ pc' = "loop"
                     /\ story_ids' = r.result.ids
                     /\ total_stories' = Len(r.result.ids)
                     /\ current_page' = 1
                     /\ total_pages' = TotalPages(Len(r.result.ids), spp)
    /\ UNCHANGED otherVars
    /\ UNCHANGED <<now, command, limit, rows, page_ids, fails, served,
                   stories, errlines, out, refreshed>>

(* cli.py 456-488: recalculation, loading and display of the current page *)
BrowseRender ==
    /\ pc = "loop"
    /\ command \in BrowseTypes
    /\ LET ps == Recalculate(current_page, total_pages, stories_per_page,
                             total_stories, rows)
           ids == PageSlice(story_ids, ps.current_page, ps.stories_per_page,
                            total_stories)
       IN  /\ stories_per_page' = ps.stories_per_page
           /\ total_pages' = ps.total_pages
           /\ current_page' = ps.current_page
           /\ page_ids' = ids
           /\ \E F \in SubsetsUpTo(Misses(cache, ids, now) \cap FlakyItems,
                                   MaxFail) :
                LET pg == LoadPage(ids, [NoPage EXCEPT !.cache = cache,
                                                        !.log = written],
                                   now, F)
                IN  /\ fails' = F
                    /\ cache' = pg.cache
                    /\ written' = pg.log
                    /\ served' = pg.served
                    /\ stories' = pg.stories
                    /\ errlines' = pg.errs
    /\ out' = NoCommand      \* clear_screen()
    /\ pc' = "prompt"
    /\ UNCHANGED otherVars
    /\ UNCHANGED <<now, last, command, limit, story_ids, total_stories, rows,
                   refreshed>>

(* cli.py 494-496 *)
BrowseNext ==
    /\ pc = "prompt"
    /\ command \in BrowseTypes
    /\ current_page' = IF current_page < total_pages THEN current_page + 1
                       ELSE current_page
    /\ out' = [NoCommand EXCEPT !.cmd = "n"]
    /\ pc' = "loop"
    /\ UNCHANGED otherVars
    /\ UNCHANGED <<cache, now, last, written, command, limit, story_ids,
                   total_stories, total_pages, stories_per_page, rows,
                   page_ids, fails, served, stories, errlines, refreshed>>

(* cli.py 497-499 *)
BrowsePrev ==
    /\ pc = "prompt"
    /\ command \in BrowseTypes
    /\ current_page' = IF current_page > 1 THEN current_page - 1
                       ELSE current_page
    /\ out' = [NoCommand EXCEPT !.cmd = "p"]
    /\ pc' = "loop"
    /\ UNCHANGED otherVars
    /\ UNCHANGED <<cache, now, last, written, command, limit, story_ids,
                   total_stories, total_pages, stories_per_page, rows,
                   page_ids, fails, served, stories, errlines, refreshed>>

(* cli.py 500-506 *)
BrowseRefresh ==
    /\ pc = "prompt"
    /\ command \in BrowseTypes
    /\ \E resp \in ListResponses :
         LET cleared == clear(cache)
             key == cache_key("stories", command)
             r == get_story_ids(cleared, command, now, resp)
         IN  /\ cache' = r.cache
             /\ written' = LogCall(EmptyLog, key, r, now)
             /\ last' = ClientCall("get_story_ids", key, r, cleared)
             /\ IF r.raised
                THEN /\ pc' = "crashed"
                     /\ UNCHANGED <<story_ids, total_stories, total_pages>>
                ELSE /\ pc' = "loop"
                     /\ story_ids' = r.result.ids
                     /\ total_stories' = Len(r.result.ids)
                     /\ total_pages' = TotalPages(Len(r.result.ids),
                                                  stories_per_page)
    /\ out' = [NoCommand EXCEPT !.cmd = "r"]
    /\ refreshed' = TRUE
    /\ UNCHANGED otherVars
    /\ UNCHANGED <<now, command, limit, current_page, stories_per_page, rows,
                   page_ids, fails, served, stories, errlines>>

(* cli.py 507-508 *)
BrowseQuit ==
    /\ pc = "prompt"
    /\ command \in BrowseTypes
    /\ out' = [NoCommand EXCEPT !.cmd = "q"]
    /\ pc' = "done"
    /\ UNCHANGED otherVars
    /\ UNCHANGED <<cache, now, last, written, command, limit, pageState,
                   rows, page_ids, fails, served, stories, errlines,
                   refreshed>>

(* the numbers typed at the prompt: around both ends of the valid range *)
SelectChoices(n) == {0, 1, 2, n, n + 1}

(* stories[idx-1] *)
Selected_OffByOne(shown, idx) == shown[Min(idx + 1, Len(shown))]

Selected(shown, idx) == shown[idx]

(* cli.py 509-514: a command made of digits; the stories of the model have *)
(* no kids, so handle_story_viewing shows the story and returns            *)
BrowseSelect ==
    /\ pc = "prompt"
    /\ command \in BrowseTypes
    /\ \E idx \in SelectChoices(Len(stories)) :
         out' = IF 1 <= idx /\ idx <= Len(stories)
                THEN [NoCommand EXCEPT !.cmd = "#", !.arg = idx,
                                       !.opened = Selected(stories, idx)]
                ELSE [NoCommand EXCEPT !.cmd = "#", !.arg = idx,
                                       !.msg = "Invalid story number"]
    /\ pc' = "loop"
    /\ UNCHANGED otherVars
    /\ UNCHANGED <<cache, now, last, written, command, limit, pageState,
                   rows, page_ids, fails, served, stories, errlines,
                   refreshed>>

(* any other command: no branch of the if/elif chain is taken *)
BrowseOther ==
    /\ pc = "prompt"
    /\ command \in BrowseTypes
    /\ out' = [NoCommand EXCEPT !.cmd = "?"]
    /\ pc' = "loop"
    /\ UNCHANGED otherVars
    /\ UNCHANGED <<cache, now, last, written, command, limit, pageState,
                   rows, page_ids, fails, served, stories, errlines,
                   refreshed>>

(* the user resizes the terminal while the prompt waits for input *)
Resize ==
    /\ pc = "prompt"
    /\ \E r \in RowsChoices \ {rows} : rows' = r
    /\ UNCHANGED otherVars
    /\ UNCHANGED <<cache, now, last, written, command, limit, pc, pageState,
                   page_ids, fails, served, stories, errlines, out,
                   refreshed>>

----------------------------------------------------------------------------
(* search *)

SEARCH_SLICE == 100     \* get_story_ids(story_type)[:100]
SEARCH_CAP == 100       \* at most 100 matches are kept

SearchTypes == <<"top", "new", "best">>

(* what each of the three list requests of one search answers *)
SearchResponses == {Failed, Ok(ListVal(Ids(MaxItems)))}

(* the three get_story_ids calls, each inside its own try/except *)
RECURSIVE FetchLists(_, _, _, _)
FetchLists(types, acc, t, resps) ==
    IF types = <<>> THEN acc
    ELSE
      LET story_type == Head(types)
          key == cache_key("stories", story_type)
          r == get_story_ids(acc.cache, story_type, t, resps[story_type])
      IN  FetchLists(Tail(types),
            [cache |-> r.cache,
             log |-> LogCall(acc.log, key, r, t),
             ids |-> IF r.raised THEN acc.ids
                     ELSE acc.ids \o PySlice(r.result.ids, 0, SEARCH_SLICE)],
            t, resps)

(* list(set(all_story_ids)): CPython lists a set of small non-negative     *)
(* ints in increasing order                                                *)
RECURSIVE SortedList(_)
SortedList(S) ==
    IF S = {} THEN <<>>
    ELSE LET m == CHOOSE x \in S : \A y \in S : x <= y
         IN  <<m>> \o SortedList(S \ {m})

(* one pass of the body of "for story_id in all_story_ids"; errors of      *)
(* get_item are ignored                                                    *)
ScanOne(acc, id, t, F) ==
    LET key == cache_key("item", ToString(id))
        r == get_item(acc.cache, id, t,
                      IF id \in F THEN Failed ELSE Ok(ItemBody(id)))
        hit == /\ ~r.raised
               /\ Truthy(r.result)
               /\ r.result.type = "story"
               /\ Matches(id)
    IN  [cache |-> r.cache,
         log |-> LogCall(acc.log, key, r, t),
         matching |-> IF hit THEN Append(acc.matching, id) ELSE acc.matching,
         stopped |-> FALSE]

RECURSIVE Scan(_, _, _, _)
Scan(ids, acc, t, F) ==
    IF ids = <<>> THEN acc
    ELSE LET before == Scan(Front(ids), acc, t, F)
         IN  IF before.stopped \/ Len(before.matching) >= SEARCH_CAP
             THEN [before EXCEPT !.stopped = TRUE]
             ELSE ScanOne(before, ids[Len(ids)], t, F)

(* cli.py 596-647 *)
SearchStart ==
    /\ pc = "start"
    /\ command = "search"
    /\ \E resps \in [Range(SearchTypes) -> SearchResponses] :
         LET lists == FetchLists(SearchTypes,
                                 [cache |-> cache, log |-> written,
                                  ids |-> <<>>], now, resps)
             all_story_ids == SortedList(Range(lists.ids))
         IN  \E F \in SubsetsUpTo(Misses(lists.cache, all_story_ids, now)
                                    \cap FlakyItems, MaxFail) :
               LET sc == Scan(all_story_ids,
                              [cache |-> lists.cache, log |-> lists.log,
                               matching |-> <<>>, stopped |-> FALSE],
                              now, F)
               IN  /\ cache' = sc.cache
                   /\ written' = sc.log
                   /\ fails' = F
                   /\ IF sc.matching = <<>>
                      THEN /\ pc' = "done"
                           /\ out' = [NoCommand EXCEPT
                                        !.msg = "No matching stories found."]
                           /\ UNCHANGED pageState
                      ELSE /\ pc' = "loop"
                           /\ out' = NoCommand
                           /\ story_ids' = sc.matching
                           /\ total_stories' = Len(sc.matching)
                           /\ current_page' = 1
                           /\ stories_per_page' =
                                calculate_stories_per_page(rows)
                           /\ total_pages' =
                                TotalPages(Len(sc.matching),
                                           calculate_stories_per_page(rows))
    /\ UNCHANGED otherVars
    /\ UNCHANGED <<now, last, command, limit, rows, page_ids, served,
                   stories, errlines, refreshed>>

(* cli.py 649-670 *)
SearchRender ==
    /\ pc = "loop"
    /\ command = "search"
    /\ LET ps == Recalculate(current_page, total_pages, stories_per_page,
                             total_stories, rows)
           ids == PageSlice(story_ids, ps.current_page, ps.stories_per_page,
                            total_stories)
       IN  /\ stories_per_page' = ps.stories_per_page
           /\ total_pages' = ps.total_pages
           /\ current_page' = ps.current_page
           /\ page_ids' = ids
           /\ stories' = ids
    /\ out' = NoCommand      \* clear_screen()
    /\ pc' = "prompt"
    /\ UNCHANGED otherVars
    /\ UNCHANGED <<cache, now, last, written, command, limit, story_ids,
                   total_stories, rows, fails, served, errlines, refreshed>>

(* cli.py 676-678 *)
SearchNext ==
    /\ pc = "prompt"
    /\ command = "search"
    /\ current_page' = IF current_page < total_pages THEN current_page + 1
                       ELSE current_page
    /\ out' = [NoCommand EXCEPT !.cmd = "n"]
    /\ pc' = "loop"
    /\ UNCHANGED otherVars
    /\ UNCHANGED <<cache, now, last, written, command, limit, story_ids,
                   total_stories, total_pages, stories_per_page, rows,
                   page_ids, fails, served, stories, errlines, refreshed>>

(* cli.py 679-681 *)
SearchPrev ==
    /\ pc = "prompt"
    /\ command = "search"
    /\ current_page' = IF current_page > 1 THEN current_page - 1
                       ELSE current_page
    /\ out' = [NoCommand EXCEPT !.cmd = "p"]
    /\ pc' = "loop"
    /\ UNCHANGED otherVars
    /\ UNCHANGED <<cache, now, last, written, command, limit, story_ids,
                   total_stories, total_pages, stories_per_page, rows,
                   page_ids, fails, served, stories, errlines, refreshed>>

(* cli.py 682-684: 'r' does nothing in the search loop *)
SearchRefresh ==
    /\ pc = "prompt"
    /\ command = "search"
    /\ out' = [NoCommand EXCEPT !.cmd = "r"]
    /\ pc' = "loop"
    /\ UNCHANGED otherVars
    /\ UNCHANGED <<cache, now, last, written, command, limit, pageState,
                   rows, page_ids, fails, served, stories, errlines,
                   refreshed>>

(* cli.py 685-686 *)
SearchQuit ==
    /\ pc = "prompt"
    /\ command = "search"
    /\ out' = [NoCommand EXCEPT !.cmd = "q"]
    /\ pc' = "done"
    /\ UNCHANGED otherVars
    /\ UNCHANGED <<cache, now, last, written, command, limit, pageState,
                   rows, page_ids, fails, served, stories, errlines,
                   refreshed>>

(* matching_stories[start_idx + idx - 1] *)
SearchSelected(matching, start, idx) == matching[start + idx]

(* cli.py 687-692 *)
SearchSelect ==
    /\ pc = "prompt"
    /\ command = "search"
    /\ LET start == start_idx(current_page, stories_per_page)
           shown == PySlice(story_ids, start,
                            end_idx(current_page, stories_per_page,
                                    total_stories))
       IN  \E idx \in SelectChoices(Len(shown)) :
             out' = IF 1 <= idx /\ idx <= Len(shown)
                    THEN [NoCommand EXCEPT
                            !.cmd = "#", !.arg = idx,
                            !.opened = SearchSelected(story_ids, start, idx)]
                    ELSE [NoCommand EXCEPT !.cmd = "#", !.arg = idx,
                                           !.msg = "Invalid story number"]
    /\ pc' = "loop"
    /\ UNCHANGED otherVars
    /\ UNCHANGED <<cache, now, last, written, command, limit, pageState,
                   rows, page_ids, fails, served, stories, errlines,
                   refreshed>>

(* any other command *)
SearchOther ==
    /\ pc = "prompt"
    /\ command = "search"
    /\ out' = [NoCommand EXCEPT !.cmd = "?"]
    /\ pc' = "loop"
    /\ UNCHANGED otherVars
    /\ UNCHANGED <<cache, now, last, written, command, limit, pageState,
                   rows, page_ids, fails, served, stories, errlines,
                   refreshed>>

Next ==
    \/ BrowseStart
    \/ BrowseRender
    \/ BrowseNext
    \/ BrowsePrev
    \/ BrowseRefresh
    \/ BrowseQuit
    \/ BrowseSelect
    \/ BrowseOther
    \/ SearchStart
    \/ SearchRender
    \/ SearchNext
    \/ SearchPrev
    \/ SearchRefresh
    \/ SearchQuit
    \/ SearchSelect
    \/ SearchOther
    \/ Resize

Spec == Init /\ [][Next]_vars

----------------------------------------------------------------------------
(* cache.py: the on-disk mirror of the cache *)

MaxFaults == 2          \* disk operations that may fail in one behaviour

(* get_cache_file(key): the file of a key inside get_cache_dir() *)
get_cache_file(key) == key \o ".json"

DiskKeys == {cache_key("stories", "top"), cache_key("item", "1")}

(* the JSON value the API serves for the request behind a key *)
ValueOf(key) ==
    IF key = cache_key("item", "1") THEN ItemVal(1, "story")
    ELSE ListVal(<<1>>)

(* cache_file.stem: the key a file of the cache directory stands for *)
Stem(file) == CHOOSE key \in DiskKeys : get_cache_file(key) = file

(* The text of a file: a JSON array, or text json.load cannot parse (an    *)
(* empty or truncated file)                                                *)
Json(array) == [valid |-> TRUE, array |-> array]
Garbage == [valid |-> FALSE, array |-> <<>>]

(* json.dump(_cache[key], f): the tuple becomes an array of two elements *)
Dump(entry) == Json(<<entry.timestamp, entry.value>>)

(* `timestamp, value = json.load(f)` raises unless the text parses to a    *)
(* sequence of exactly two elements                                        *)
Loads(content) == content.valid /\ Len(content.array) = 2

Parse(content) ==
    [timestamp |-> content.array[1], value |-> content.array[2]]

(* the entries a cache directory holds: its well-formed files by key *)
Persisted(d) ==
    [key \in {Stem(f) : f \in {g \in DOMAIN d : Loads(d[g])}} |->
        Parse(d[get_cache_file(key)])]

Restrict(f, S) == [x \in DOMAIN f \cap S |-> f[x]]

(* Outcome of a cache operation: memory and directory afterwards, whether  *)
(* an exception left the operation, and how many disk operations failed    *)
Done(c, d, n) == [cache |-> c, disk |-> d, raised |-> FALSE, failed |-> n]
Propagated(c, d) == [cache |-> c, disk |-> d, raised |-> TRUE, failed |-> 1]

(* load_cache_from_disk(): dirOK is whether get_cache_dir() can make the   *)
(* directory (line 30, outside the try), unreadable the files whose open   *)
(* fails (inside the try)                                                  *)
load_cache_from_disk(c, d, dirOK, unreadable) ==
    IF ~dirOK THEN Propagated(c, d)
    ELSE Done(Persisted(Restrict(d, DOMAIN d \ unreadable)) @@ c, d,
              Cardinality(unreadable))

SaveOutcomes == {"written", "open fails", "dump fails"}

(* save_cache_to_disk(key): get_cache_file runs outside the try (line 44); *)
(* open(..., "w") may fail and leave the file as it was; json.dump may     *)
(* fail after open has truncated the file                                  *)
save_cache_to_disk(c, d, key, dirOK, outcome) ==
    LET file == get_cache_file(key)
    IN  IF key \notin DOMAIN c THEN Done(c, d, 0)
        ELSE IF ~dirOK THEN Propagated(c, d)
        ELSE CASE outcome = "written" ->
                    Done(c, (file :> Dump(c[key])) @@ d, 0)
               [] outcome = "open fails" -> Done(c, d, 1)
               [] OTHER -> Done(c, (file :> Garbage) @@ d, 1)

(* cache.set(key, value) *)
cache_set(c, d, key, value, t, dirOK, outcome) ==
    save_cache_to_disk(set(c, key, value, t), d, key, dirOK, outcome)

cache_clear_KeepFiles(c, d, dirOK, stuck) ==
    IF ~dirOK THEN Propagated(clear(c), d)
    ELSE Done(clear(c), d, Cardinality(stuck))

(* cache.clear(): stuck are the files whose os.unlink fails *)
cache_clear(c, d, dirOK, stuck) ==
    IF ~dirOK THEN Propagated(clear(c), d)
    ELSE Done(clear(c), Restrict(d, stuck), Cardinality(stuck))

(* the keys clear_expired removes *)
Expired(c, ttl, t) == {key \in DOMAIN c : t - c[key].timestamp >= ttl}

cache_clear_expired_KeepFiles(c, d, ttl, t, dirOK, first, stuck) ==
    LET expired_keys == Expired(c, ttl, t)
    IN  IF expired_keys = {} THEN Done(c, d, 0)
        ELSE IF ~dirOK
        THEN Propagated(Restrict(c, DOMAIN c \ {first}), d)
        ELSE Done(Restrict(c, DOMAIN c \ expired_keys), d,
                  Cardinality(stuck))

(* cache.clear_expired(ttl): for each expired key `del _cache[key]`, then  *)
(* get_cache_file(key) outside the try (line 83), then os.unlink inside    *)
(* it; first is the key the loop visits first, stuck the files whose       *)
(* unlink fails with the file left in place                                *)
cache_clear_expired(c, d, ttl, t, dirOK, first, stuck) ==
    LET expired_keys == Expired(c, ttl, t)
        gone == {get_cache_file(key) : key \in expired_keys} \ stuck
    IN  IF expired_keys = {} THEN Done(c, d, 0)
        ELSE IF ~dirOK
        THEN Propagated(Restrict(c, DOMAIN c \ {first}), d)
        ELSE Done(Restrict(c, DOMAIN c \ expired_keys),
                  Restrict(d, DOMAIN d \ gone), Cardinality(stuck))

----------------------------------------------------------------------------
(* SpecDisk: one cache directory and the processes that use it, one after  *)
(* the other; a disk operation may fail                                    *)

(* the record of the last cache operation: failed counts the disk          *)
(* operations that failed in it, stuck are the files its unlink calls      *)
(* failed on                                                               *)
DiskCall(op, key, ttl, value, r, stuck) ==
    [op |-> op, key |-> key, ttl |-> ttl, at |-> now, value |-> value,
     raised |-> r.raised, failed |-> r.failed, stuck |-> stuck]

(* what an earlier process, or a crash in the middle of a write, may have  *)
(* left in the file of a key                                               *)
InitialFiles(key) ==
    {Dump([timestamp |-> 0, value |-> ValueOf(key)]), Garbage, Json(<<0>>)}

InitialDisks ==
    {d \in UNION {[F -> UNION {InitialFiles(key) : key \in DiskKeys}] :
                    F \in SUBSET {get_cache_file(key) : key \in DiskKeys}} :
        \A f \in DOMAIN d : d[f] \in InitialFiles(Stem(f))}

(* line 91: the module loads the directory when it is imported *)
InitDisk ==
    /\ disk \in InitialDisks
    /\ cache = load_cache_from_disk(<<>>, disk, TRUE, {}).cache
    /\ faults = 0
    /\ now = 0
    /\ last = NoCall
    /\ written = EmptyLog
    /\ probe = NoProbe
    /\ nav = NoNav
    /\ IdleRest
    /\ IdleSession

Apply(r) ==
    /\ faults + r.failed <= MaxFaults
    /\ cache' = r.cache
    /\ disk' = r.disk
    /\ faults' = faults + r.failed

DiskGet ==
    \E key \in DiskKeys, ttl \in TtlChoices :
        /\ last' = DiskCall("get", key, ttl, get(cache, key, ttl, now),
                            Done(cache, disk, 0), {})
        /\ UNCHANGED <<cache, now, written, sessionVars, otherVars>>

DiskSet ==
    \E key \in DiskKeys, dirOK \in BOOLEAN, outcome \in SaveOutcomes :
        LET r == cache_set(cache, disk, key, ValueOf(key), now, dirOK,
                           outcome)
        IN  /\ Apply(r)
            /\ last' = DiskCall("set", key, 0, ValueOf(key), r, {})
            /\ UNCHANGED <<now, written, sessionVars, probe, nav,
                           restVars>>

DiskClear ==
    \E dirOK \in BOOLEAN, stuck \in SUBSET DOMAIN disk :
        LET r == cache_clear(cache, disk, dirOK, stuck)
        IN  /\ Apply(r)
            /\ last' = DiskCall("clear", "", 0, None, r,
                                IF dirOK THEN stuck ELSE DOMAIN disk)
            /\ UNCHANGED <<now, written, sessionVars, probe, nav,
                           restVars>>

DiskClearExpired ==
    \E ttl \in TtlChoices, dirOK \in BOOLEAN :
      \E first \in Expired(cache, ttl, now) :
        \E stuck \in SUBSET (DOMAIN disk \cap
              {get_cache_file(key) : key \in Expired(cache, ttl, now)}) :
          LET r == cache_clear_expired(cache, disk, ttl, now, dirOK, first,
                                       stuck)
          IN  /\ Apply(r)
              /\ last' = DiskCall("clear_expired", "", ttl, None, r, stuck)
              /\ UNCHANGED <<now, written, sessionVars, probe, nav,
                             restVars>>

(* the process ends and the next one imports the cache module *)
Restart ==
    \E dirOK \in BOOLEAN, unreadable \in SUBSET DOMAIN disk :
        LET r == load_cache_from_disk(<<>>, disk, dirOK, unreadable)
        IN  /\ Apply(r)
            /\ last' = DiskCall("load", "", 0, None, r, {})
            /\ UNCHANGED <<now, written, sessionVars, probe, nav,
                           restVars>>

NextDisk ==
    \/ Tick
    \/ DiskGet
    \/ DiskSet
    \/ DiskClear
    \/ DiskClearExpired
    \/ Restart

SpecDisk == InitDisk /\ [][NextDisk]_vars

----------------------------------------------------------------------------
(* SpecKey: two requests of the remote client and the cache keys they use  *)

(* a request: the prefix its operation passes to cache_key, and the        *)
(* argument under the name the operation gives it                          *)
StoryRequests ==
    {[prefix |-> "stories", story_type |-> t] : t \in {"top", "new", "best"}}
ItemRequests == {[prefix |-> "item", item_id |-> i] : i \in {1, 2, 12}}
UserRequests ==
    {[prefix |-> "user", username |-> u] :
        u \in {"pg", "1", "12", "top", "item_1"}}

Requests == StoryRequests \cup ItemRequests \cup UserRequests

(* the key get_story_ids / get_item / get_user computes for a request:     *)
(* cache_key applies str() to the argument                                 *)
KeyOf(req) ==
    CASE req.prefix = "stories" -> cache_key("stories", req.story_type)
      [] req.prefix = "item" -> cache_key("item", ToString(req.item_id))
      [] OTHER -> cache_key("user", req.username)

InitKey ==
    /\ probe \in [first : Requests, second : Requests, keys : {<<>>}]
    /\ cache = EmptyLog
    /\ now = 0
    /\ last = NoCall
    /\ written = EmptyLog
    /\ disk = NoFiles
    /\ faults = 0
    /\ nav = NoNav
    /\ IdleRest
    /\ IdleSession

FirstCall ==
    /\ probe.keys = <<>>
    /\ probe' = [probe EXCEPT !.keys = <<KeyOf(probe.first)>>]
    /\ UNCHANGED <<cache, now, last, written, sessionVars, diskVars, nav,
                   restVars>>

SecondCall ==
    /\ Len(probe.keys) = 1
    /\ probe' = [probe EXCEPT !.keys = Append(@, KeyOf(probe.second))]
    /\ UNCHANGED <<cache, now, last, written, sessionVars, diskVars, nav,
                   restVars>>

NextKey ==
    \/ FirstCall
    \/ SecondCall

SpecKey == InitKey /\ [][NextKey]_vars

----------------------------------------------------------------------------
(* display_comments: the comment navigator *)

MaxParents == 12        \* most child ids a story of the model has

(* A comment as the API serves it: marks are those of the keys "deleted"   *)
(* and "dead" the object has, wrapped the number of lines                  *)
(* textwrap.fill(text) gives                                               *)
CommentVal(id, kids, marks, wrapped) ==
    [kind |-> "item", id |-> id, type |-> "comment", kids |-> kids,
     marks |-> marks, wrapped |-> wrapped]

(* The threads of the model.  101..112 are top-level comments.             *)
(*   101 -> 121 -> 131        102 deleted       103 dead                   *)
(*       -> 122 (deleted) -> 132                104 a long comment         *)
(*       -> 123                                 106 served as null         *)
(*   131 -> 141                                                            *)
CommentBody(id) ==
    CASE id = 101 -> CommentVal(101, <<121, 122, 123>>, {}, 1)
      [] id = 121 -> CommentVal(121, <<131>>, {}, 2)
      [] id = 122 -> CommentVal(122, <<132>>, {"deleted"}, 1)
      [] id = 131 -> CommentVal(131, <<141>>, {}, 1)
      [] id = 102 -> CommentVal(102, <<>>, {"deleted"}, 1)
      [] id = 103 -> CommentVal(103, <<>>, {"dead"}, 1)
      [] id = 104 -> CommentVal(104, <<>>, {}, 14)
      [] id = 106 -> None
      [] OTHER -> CommentVal(id, <<>>, {}, 1)

(* story.get("kids", []) of the stories of the model *)
TopLevel(n) == [i \in 1..n |-> 100 + i]

StoryKids == {TopLevel(0), <<102, 103>>, TopLevel(4), TopLevel(MaxParents)}

(* ids of the navigator whose HTTP GET may fail *)
FlakyComments == {105, 123}

(* --comments of the story command: not given, or a number *)
MaxComments == {<<>>, <<0>>, <<2>>}

NavRows == {10, 12, 30}

(* columns of the terminal: a usual one, and two narrow ones *)
NavCols == {80, 8, 5}

(* `comment and "deleted" not in comment and "dead" not in comment` *)
Kept(v) == Truthy(v) /\ v.marks = {}

(* max(5, min(10, rows - 5)) *)
max_parents(r) == Max(5, Min(10, r - 5))

(* lines 288-295: the child ids display_comments fetches *)
ParentIds_All(kids, max_comments, r) == kids

ParentIds(kids, max_comments, r) ==
    IF max_comments /= <<>> THEN PySlice(kids, 0, max_comments[1])
    ELSE PySlice(kids, 0, max_parents(r))

(* Progress of a run of fetches: the cache, the comments or lines          *)
(* collected, the ids passed to get_item in call order, those of them for  *)
(* which get_item raised, and whether an exception is propagating          *)
NoFetch(c) ==
    [cache |-> c, kept |-> <<>>, fetched |-> <<>>, failed |-> {},
     error |-> FALSE]

(* lines 299-305: one pass of "for cid in parent_ids" *)
FetchParent(acc, cid, t, F) ==
    LET r == get_item(acc.cache, cid, t,
                      IF cid \in F THEN Failed ELSE Ok(CommentBody(cid)))
    IN  [cache |-> r.cache,
         kept |-> IF ~r.raised /\ Kept(r.result) THEN Append(acc.kept, cid)
                  ELSE acc.kept,
         fetched |-> Append(acc.fetched, cid),
         failed |-> IF r.raised THEN acc.failed \cup {cid} ELSE acc.failed,
         error |-> FALSE]

RECURSIVE FetchParents(_, _, _, _)
FetchParents(ids, acc, t, F) ==
    IF ids = <<>> THEN acc
    ELSE FetchParent(FetchParents(Front(ids), acc, t, F), ids[Len(ids)],
                     t, F)

(* the lines one comment contributes: header, wrapped body, blank line *)
Line(id, depth, part) == [id |-> id, depth |-> depth, part |-> part]

OwnLines(cmt, depth) ==
    <<Line(cmt.id, depth, "header")>>
    \o [i \in 1..cmt.wrapped |-> Line(cmt.id, depth, "body")]
    \o <<Line(cmt.id, depth, "")>>

(* lines 364-365: wrap_width = min(100, cols - len(indent) - 5), where     *)
(* indent is two spaces per level                                          *)
wrap_width(cols, depth) == Min(100, cols - 2 * depth - 5)

(* expand_comment_tree.collect (lines 352-375).  textwrap.fill (line 366)  *)
(* raises ValueError when the width is not positive: the header is in the  *)
(* buffer by then, the body and the kids are not reached.                  *)
RECURSIVE collect(_, _, _, _, _, _)
RECURSIVE CollectKids(_, _, _, _, _, _)
collect(cmt, depth, acc, t, F, cols) ==
    IF ~Kept(cmt) THEN acc
    ELSE IF wrap_width(cols, depth) <= 0
    THEN [acc EXCEPT !.kept = Append(@, Line(cmt.id, depth, "header")),
                     !.error = TRUE]
    ELSE CollectKids(cmt.kids, depth,
                     [acc EXCEPT !.kept = @ \o OwnLines(cmt, depth)], t, F,
                     cols)

(* "for kid in cmt.get('kids', [])": the try of lines 371-375 holds both   *)
(* get_item(kid) and collect(child, depth + 1), so a kid for which either  *)
(* raises is left where it stopped and the loop goes on                    *)
CollectKids(kids, depth, acc, t, F, cols) ==
    IF kids = <<>> THEN acc
    ELSE LET before == CollectKids(Front(kids), depth, acc, t, F, cols)
             kid == kids[Len(kids)]
             r == get_item(before.cache, kid, t,
                           IF kid \in F THEN Failed
                           ELSE Ok(CommentBody(kid)))
             asked == [before EXCEPT !.cache = r.cache,
                                     !.fetched = Append(@, kid)]
         IN  IF r.raised
             THEN [asked EXCEPT !.failed = @ \cup {kid}]
             ELSE [collect(r.result, depth + 1, asked, t, F, cols)
                     EXCEPT !.error = FALSE]

(* str.lower() on one character, for the letters the model uses *)
LowerCase ==
    "Q" :> "q" @@ "B" :> "b" @@ "T" :> "t" @@ "R" :> "r" @@ "U" :> "u"
    @@ "E" :> "e" @@ "Y" :> "y" @@ "S" :> "s" @@ "N" :> "n" @@ "O" :> "o"
    @@ "F" :> "f" @@ "A" :> "a" @@ "L" :> "l"

Lower(ch) == IF ch \in DOMAIN LowerCase THEN LowerCase[ch] ELSE ch

(* get_key (lines 318-336) on the characters of one key press; a lone ESC  *)
(* makes it read the next press too                                        *)
get_key(chars) ==
    IF chars[1] = "ESC"
    THEN IF chars[2] = "["
         THEN IF chars[3] = "A" THEN "UP"
              ELSE IF chars[3] = "B" THEN "DOWN"
              ELSE "None"
         ELSE "None"
    ELSE IF chars[1] \in {"CR", "LF"} THEN "ENTER"
    ELSE IF Lower(chars[1]) = "q" THEN "QUIT"
    ELSE IF Lower(chars[1]) = "b" THEN "BACK"
    ELSE "None"

KeyPresses ==
    {<<"ESC", "[", "A">>, <<"ESC", "[", "B">>, <<"ESC", "[", "C">>,
     <<"ESC", "q">>, <<"CR">>, <<"LF">>, <<"q">>, <<"Q">>, <<"b">>,
     <<"B">>, <<"x">>}

Presses(key) == {chars \in KeyPresses : get_key(chars) = key}

(* lines 410-413 and 390-393: the new selection and the new offset *)
select_up(selected, n) == (selected - 1) % n

select_down_Clamp(selected, n) == Min(selected + 1, n - 1)

select_down(selected, n) == (selected + 1) % n

scroll_up(offset) == Max(0, offset - 1)

scroll_down_NoClamp(offset, max_offset) == offset + 1

scroll_down(offset, max_offset) == Min(max_offset, offset + 1)

----------------------------------------------------------------------------
(* SpecNav: one call of display_comments(story, max_comments)              *)

(* nav.view is the position of the navigator: "Start" before the call,     *)
(* "List" in the selection loop, "Expanded" in the scroll loop of          *)
(* expand_comment_tree, "Done" after the return, "Crashed" when an         *)
(* exception left display_comments.  nav.key is the last value of get_key, *)
(* nav.fetched and nav.failed are those of the last run of fetches.        *)
NavStart(kids, max_comments, r, cols) ==
    [view |-> "Start", kids |-> kids, max_comments |-> max_comments,
     rows |-> r, cols |-> cols, parent_comments |-> <<>>, selected |-> 0,
     key |-> "", lines |-> <<>>, offset |-> 0, view_height |-> 0,
     max_offset |-> 0, fetched |-> <<>>, failed |-> {}]

InitNav ==
    /\ nav \in {NavStart(kids, max_comments, r, cols) :
                  kids \in StoryKids, max_comments \in MaxComments,
                  r \in NavRows, cols \in NavCols}
    /\ cache = EmptyLog
    /\ now = 0
    /\ last = NoCall
    /\ written = EmptyLog
    /\ disk = NoFiles
    /\ faults = 0
    /\ probe = NoProbe
    /\ IdleRest
    /\ IdleSession

(* the log of cache.set calls after a run of fetches *)
LogFetches(w, before, after, t) ==
    [key \in DOMAIN after \ DOMAIN before |->
        [at |-> t, value |-> after[key].value]] @@ w

NavFetched(r) ==
    /\ cache' = r.cache
    /\ written' = LogFetches(written, cache, r.cache, now)
    /\ UNCHANGED <<now, last, sessionVars, diskVars, probe,
                   restVars>>

NavOnly ==
    UNCHANGED <<cache, now, last, written, sessionVars, diskVars, probe,
                restVars>>

(* lines 281-305: "No comments yet." or the pre-fetch of the parents *)
NavEnter ==
    /\ nav.view = "Start"
    /\ IF nav.kids = <<>>
       THEN /\ nav' = [nav EXCEPT !.view = "Done"]
            /\ NavOnly
       ELSE LET ids == ParentIds(nav.kids, nav.max_comments, nav.rows)
            IN  \E F \in SUBSET (FlakyComments \cap Range(ids)) :
                  LET r == FetchParents(ids, NoFetch(cache), now, F)
                  IN  /\ nav' = [nav EXCEPT !.view = "List",
                                            !.parent_comments = r.kept,
                                            !.selected = 0,
                                            !.fetched = r.fetched,
                                            !.failed = r.failed]
                      /\ NavFetched(r)

(* line 411: selected = (selected - 1) % len(parent_comments) *)
ListUp ==
    /\ nav.view = "List"
    /\ \E chars \in Presses("UP") :
         nav' = IF nav.parent_comments = <<>>
                THEN [nav EXCEPT !.view = "Crashed", !.key = "UP"]
                ELSE [nav EXCEPT !.key = "UP",
                        !.selected =
                            select_up(@, Len(nav.parent_comments))]
    /\ NavOnly

(* line 413 *)
ListDown ==
    /\ nav.view = "List"
    /\ \E chars \in Presses("DOWN") :
         nav' = IF nav.parent_comments = <<>>
                THEN [nav EXCEPT !.view = "Crashed", !.key = "DOWN"]
                ELSE [nav EXCEPT !.key = "DOWN",
                        !.selected =
                            select_down(@, Len(nav.parent_comments))]
    /\ NavOnly

(* line 415 and lines 347-383: expand_comment_tree(parent_comments[       *)
(* selected]) up to the first render of the scroll loop; nothing catches   *)
(* an exception of collect(comment, 0)                                     *)
ListEnter ==
    /\ nav.view = "List"
    /\ \E chars \in Presses("ENTER") :
         IF nav.selected >= Len(nav.parent_comments)
         THEN /\ nav' = [nav EXCEPT !.view = "Crashed", !.key = "ENTER"]
              /\ NavOnly
         ELSE LET comment ==
                      CommentBody(nav.parent_comments[nav.selected + 1])
              IN  \E F \in SUBSET (FlakyComments \ Range(nav.kids)) :
                    LET r == collect(comment, 0, NoFetch(cache), now, F,
                                     nav.cols)
                        view_height == Max(nav.rows - 1, 1)
                    IN  /\ nav' = IF r.error
                                  THEN [nav EXCEPT !.view = "Crashed",
                                                   !.key = "ENTER",
                                                   !.lines = r.kept,
                                                   !.fetched = r.fetched,
                                                   !.failed = r.failed]
                                  ELSE [nav EXCEPT
                                     !.view = "Expanded",
                                     !.key = "ENTER",
                                     !.lines = r.kept,
                                     !.offset = 0,
                                     !.view_height = view_height,
                                     !.max_offset =
                                         Max(Len(r.kept) - view_height, 0),
                                     !.fetched = r.fetched,
                                     !.failed = r.failed]
                        /\ NavFetched(r)

(* lines 416-417 *)
ListQuit ==
    /\ nav.view = "List"
    /\ \E chars \in Presses("QUIT") \cup Presses("BACK") :
         nav' = [nav EXCEPT !.view = "Done", !.key = get_key(chars)]
    /\ NavOnly

(* no branch of lines 410-417 takes a key get_key does not recognise *)
ListOther ==
    /\ nav.view = "List"
    /\ \E chars \in Presses("None") : nav' = [nav EXCEPT !.key = "None"]
    /\ NavOnly

(* lines 390-391 *)
ExpandedUp ==
    /\ nav.view = "Expanded"
    /\ \E chars \in Presses("UP") :
         nav' = [nav EXCEPT !.key = "UP", !.offset = scroll_up(@)]
    /\ NavOnly

(* lines 392-393 *)
ExpandedDown ==
    /\ nav.view = "Expanded"
    /\ \E chars \in Presses("DOWN") :
         nav' = [nav EXCEPT !.key = "DOWN",
                            !.offset = scroll_down(@, nav.max_offset)]
    /\ NavOnly

(* lines 394-395: any other key leaves expand_comment_tree *)
ExpandedReturn ==
    /\ nav.view = "Expanded"
    /\ \E chars \in KeyPresses \ (Presses("UP") \cup Presses("DOWN")) :
         nav' = [nav EXCEPT !.view = "List", !.key = get_key(chars)]
    /\ NavOnly

(* the terminal is resized while the navigator waits for a key *)
NavResize ==
    /\ nav.view \in {"List", "Expanded"}
    /\ \E r \in NavRows \ {nav.rows} : nav' = [nav EXCEPT !.rows = r]
    /\ NavOnly

NextNav ==
    \/ NavEnter
    \/ ListUp
    \/ ListDown
    \/ ListEnter
    \/ ListQuit
    \/ ListOther
    \/ ExpandedUp
    \/ ExpandedDown
    \/ ExpandedReturn
    \/ NavResize

SpecNav == InitNav /\ [][NextNav]_vars

----------------------------------------------------------------------------
(* config.py: the settings and the config file                             *)

(* Python values of the settings.  One field name per type: an int, a bool *)
(* and a str of the model are never equal.                                 *)
IntV(n) == [int |-> n]
BoolV(b) == [bool |-> b]
StrV(chars) == [str |-> chars]

(* config.py lines 11-22, as the module holds it when it is imported *)
DEFAULT_CONFIG ==
    "stories_per_page" :> IntV(10)
    @@ "max_comment_depth" :> IntV(3)
    @@ "open_links_in_browser" :> BoolV(TRUE)
    @@ "color_theme" :> StrV(<<"d", "e", "f", "a", "u", "l", "t">>)
    @@ "cache_timeout_minutes" :> IntV(cache_timeout_minutes)

(* ~/.config/hncli/config.json: absent, present with content json.load    *)
(* or dict.update rejects (or that cannot be read), or a JSON object.      *)
(* json.dump followed by json.load gives back the ints, bools and strs of  *)
(* an object unchanged, so an object file holds the dict itself.           *)
Missing == [kind |-> "missing", data |-> <<>>]
Corrupt == [kind |-> "corrupt", data |-> <<>>]
ObjectFile(config) == [kind |-> "object", data |-> config]

(* The file system under the config file: "ok"; "readonly", where          *)
(* open(path, "w") raises; "nodir", where the mkdir of get_config_path     *)
(* raises.                                                                 *)
FileSystems == {"ok", "readonly", "nodir"}

(* dict.get(key, default) *)
PyGet(d, key, default) == IF key \in DOMAIN d THEN d[key] ELSE default

(* get_config_path (lines 24-28) *)
get_config_path(fs) == [raised |-> fs = "nodir"]

(* save_config (lines 50-55): nothing catches what mkdir or open raise *)
save_config(file, fs, config) ==
    IF get_config_path(fs).raised \/ fs = "readonly"
    THEN [file |-> file, raised |-> TRUE]
    ELSE [file |-> ObjectFile(config), raised |-> FALSE]

(* load_config (lines 30-48).  alias: the dict returned is DEFAULT_CONFIG  *)
(* itself (lines 44 and 48), not a copy of it (line 39).  defaults is the  *)
(* present content of DEFAULT_CONFIG.                                      *)
load_config(file, fs, defaults) ==
    IF get_config_path(fs).raised
    THEN [file |-> file, config |-> <<>>, alias |-> FALSE, raised |-> TRUE]
    ELSE IF file.kind = "object"
    THEN [file |-> file, config |-> file.data @@ defaults, alias |-> FALSE,
          raised |-> FALSE]
    ELSE IF file.kind = "corrupt"
    THEN [file |-> file, config |-> defaults, alias |-> TRUE,
          raised |-> FALSE]
    ELSE LET s == save_config(file, fs, defaults)
         IN  [file |-> s.file, config |-> defaults, alias |-> TRUE,
              raised |-> s.raised]

(* get_setting (lines 57-60) *)
get_setting(file, fs, defaults, key) ==
    LET l == load_config(file, fs, defaults)
    IN  [file |-> l.file,
         result |-> IF l.raised THEN None
                    ELSE PyGet(l.config, key, PyGet(defaults, key, None)),
         raised |-> l.raised]

(* update_setting (lines 62-66): config[key] = value writes into           *)
(* DEFAULT_CONFIG when load_config returned it                             *)
update_setting(file, fs, defaults, key, value) ==
    LET l == load_config(file, fs, defaults)
        config == (key :> value) @@ l.config
        s == save_config(l.file, fs, config)
    IN  IF l.raised
        THEN [file |-> l.file, defaults |-> defaults, raised |-> TRUE]
        ELSE [file |-> s.file,
              defaults |-> IF l.alias THEN config ELSE defaults,
              raised |-> s.raised]

(* get_config_value (cli.py lines 54-59) *)
get_config_value(file, fs, defaults, key, default) ==
    LET g == get_setting(file, fs, defaults, key)
    IN  [file |-> g.file,
         result |-> IF g.raised THEN default ELSE g.result,
         raised |-> FALSE]

(* str.lower(), str.isdigit() and int() on a value given as its            *)
(* characters.  isdigit accepts every character of Unicode digit type, the *)
(* superscript two (U+00B2, "SUP2" here) among them, which int() rejects.  *)
lower(chars) == [i \in DOMAIN chars |-> Lower(chars[i])]

DecimalDigits == <<"0", "1", "2", "3", "4", "5", "6", "7", "8", "9">>

DigitVal(ch) == CHOOSE d \in 0..9 : DecimalDigits[d + 1] = ch

isdigit(chars) ==
    /\ chars /= <<>>
    /\ \A i \in DOMAIN chars : chars[i] \in Range(DecimalDigits) \cup {"SUP2"}

RECURSIVE int(_)
int(chars) ==
    IF chars = <<>> THEN 0
    ELSE 10 * int(Front(chars)) + DigitVal(chars[Len(chars)])

(* config_set (cli.py lines 709-716): the value handed to update_setting;  *)
(* int(value) is outside the try of line 718                               *)
TrueWords == {<<"t", "r", "u", "e">>, <<"y", "e", "s">>, <<"y">>, <<"1">>}
FalseWords == {<<"f", "a", "l", "s", "e">>, <<"n", "o">>, <<"n">>, <<"0">>}

Coerce(chars) ==
    IF lower(chars) \in TrueWords
    THEN [value |-> BoolV(TRUE), raised |-> FALSE]
    ELSE IF lower(chars) \in FalseWords
    THEN [value |-> BoolV(FALSE), raised |-> FALSE]
    ELSE IF isdigit(chars)
    THEN IF \A i \in DOMAIN chars : chars[i] \in Range(DecimalDigits)
         THEN [value |-> IntV(int(chars)), raised |-> FALSE]
         ELSE [value |-> None, raised |-> TRUE]
    ELSE [value |-> StrV(chars), raised |-> FALSE]

(* config_set (cli.py lines 706-722) *)
config_set(file, fs, defaults, key, chars) ==
    LET c == Coerce(chars)
        u == update_setting(file, fs, defaults, key, c.value)
    IN  IF c.raised
        THEN [file |-> file, defaults |-> defaults, passed |-> None,
              raised |-> TRUE, out |-> "ValueError"]
        ELSE [file |-> u.file, defaults |-> u.defaults, passed |-> c.value,
              raised |-> FALSE,
              out |-> IF u.raised THEN "Error updating setting"
                      ELSE "Updated"]

(* config_reset (cli.py lines 751-758) *)
config_reset(file, fs, defaults) ==
    LET s == save_config(file, fs, defaults)
    IN  [file |-> s.file, raised |-> FALSE,
         out |-> IF s.raised THEN "Error resetting configuration"
                 ELSE "Configuration reset to defaults"]

----------------------------------------------------------------------------
(* SpecConfig: calls of the config functions and commands in one process   *)

ConfigKeys == {"stories_per_page", "foo"}

GetKeys == ConfigKeys \cup {"color_theme"}

(* the value argument of config-set *)
SetValues ==
    {<<"1", "5">>, <<"0", "0", "7">>, <<"1">>, <<"0">>, <<"Y", "e", "s">>,
     <<"t", "r", "u", "e">>, <<"N">>, <<"F", "A", "L", "S", "E">>,
     <<"d", "a", "r", "k">>, <<"-", "3">>, <<"SUP2">>, <<>>}

(* the calls of get_config_value in cli.py (lines 65, 588) *)
ConfigDefaults ==
    {<<"cache_timeout_minutes", IntV(5)>>,
     <<"open_links_in_browser", BoolV(TRUE)>>}

InitialConfigFiles ==
    {Missing, Corrupt, ObjectFile(<<>>),
     ObjectFile("stories_per_page" :> IntV(15)),
     ObjectFile("foo" :> StrV(<<"x">>))}

NoConfigCall ==
    [op |-> "none", key |-> "", value |-> <<>>, passed |-> None,
     result |-> None, raised |-> FALSE, out |-> ""]

InitConfig ==
    /\ cfg \in [file : InitialConfigFiles, fs : FileSystems,
                DEFAULT_CONFIG : {DEFAULT_CONFIG}, last : {NoConfigCall}]
    /\ tty = NoTty
    /\ cache = EmptyLog
    /\ now = 0
    /\ last = NoCall
    /\ written = EmptyLog
    /\ disk = NoFiles
    /\ faults = 0
    /\ probe = NoProbe
    /\ nav = NoNav
    /\ IdleSession

ConfigOnly ==
    UNCHANGED <<cache, now, last, written, sessionVars, diskVars, probe, nav,
                tty>>

(* config.get_setting(key), as config_get calls it (cli.py line 729) *)
GetSetting ==
    /\ \E key \in GetKeys :
         LET g == get_setting(cfg.file, cfg.fs, cfg.DEFAULT_CONFIG, key)
         IN  cfg' = [cfg EXCEPT
                       !.file = g.file,
                       !.last = [NoConfigCall EXCEPT
                                   !.op = "get_setting", !.key = key,
                                   !.result = g.result,
                                   !.raised = g.raised]]
    /\ ConfigOnly

GetConfigValue ==
    /\ \E call \in ConfigDefaults :
         LET g == get_config_value(cfg.file, cfg.fs, cfg.DEFAULT_CONFIG,
                                   call[1], call[2])
         IN  cfg' = [cfg EXCEPT
                       !.file = g.file,
                       !.last = [NoConfigCall EXCEPT
                                   !.op = "get_config_value",
                                   !.key = call[1], !.result = g.result]]
    /\ ConfigOnly

ConfigSet ==
    /\ \E key \in ConfigKeys, chars \in SetValues :
         LET r == config_set(cfg.file, cfg.fs, cfg.DEFAULT_CONFIG, key, chars)
         IN  cfg' = [cfg EXCEPT
                       !.file = r.file,
                       !.DEFAULT_CONFIG = r.defaults,
                       !.last = [NoConfigCall EXCEPT
                                   !.op = "config_set", !.key = key,
                                   !.value = chars, !.passed = r.passed,
                                   !.raised = r.raised, !.out = r.out]]
    /\ ConfigOnly

ConfigReset ==
    /\ LET r == config_reset(cfg.file, cfg.fs, cfg.DEFAULT_CONFIG)
       IN  cfg' = [cfg EXCEPT
                     !.file = r.file,
                     !.last = [NoConfigCall EXCEPT
                                 !.op = "config_reset", !.out = r.out]]
    /\ ConfigOnly

NextConfig ==
    \/ GetSetting
    \/ GetConfigValue
    \/ ConfigSet
    \/ ConfigReset

SpecConfig == InitConfig /\ [][NextConfig]_vars

----------------------------------------------------------------------------
(* read_single_keypress and get_key (cli.py lines 307-336), one call of    *)
(* termios / tty / stdin at a time                                         *)

(* the settings tcgetattr can find when display_comments starts *)
TermModes == {"cooked", "cbreak"}

TtyChars == {"ESC", "[", "A", "B", "CR", "q", "b", "x"}

(* does get_key return after these characters, or read another one *)
Complete(chars) ==
    \/ chars[1] /= "ESC"
    \/ Len(chars) = 2 /\ chars[2] /= "["
    \/ Len(chars) = 3

(* Lines 311-315, the way out of the try block.  outcome is "char" when    *)
(* sys.stdin.read(1) returned, "error" when tty.setraw or the read raised, *)
(* "interrupt" for a KeyboardInterrupt in the read; the finally clause     *)
(* runs tcsetattr(fd, TCSADRAIN, old_settings) in all three.               *)
read_single_keypress_NoFinally(t, outcome) ==
    [t EXCEPT !.outcome = outcome,
              !.mode = IF outcome = "char" THEN t.old_settings ELSE @]

read_single_keypress(t, outcome) ==
    [t EXCEPT !.outcome = outcome, !.mode = t.old_settings]

(* SpecTty: the key reads of one display_comments call.  tty.pc is         *)
(* "render" while the navigator draws or fetches, "between" inside get_key *)
(* between two reads, "saved" after tcgetattr (line 310), "raw" inside     *)
(* sys.stdin.read(1), "exited" once display_comments has returned or an    *)
(* exception has left it.                                                  *)
InitTty ==
    /\ tty \in {[pc |-> "render", mode |-> m, initial |-> m,
                 old_settings |-> "", chars |-> <<>>, key |-> "",
                 outcome |-> "", isatty |-> a] :
                  m \in TermModes, a \in BOOLEAN}
    /\ cfg = NoConfig
    /\ cache = EmptyLog
    /\ now = 0
    /\ last = NoCall
    /\ written = EmptyLog
    /\ disk = NoFiles
    /\ faults = 0
    /\ probe = NoProbe
    /\ nav = NoNav
    /\ IdleSession

TtyOnly ==
    UNCHANGED <<cache, now, last, written, sessionVars, diskVars, probe, nav,
                cfg>>

(* line 310: termios.tcgetattr(fd), before the try; it raises when stdin   *)
(* is not a terminal                                                       *)
TcGetAttr ==
    /\ tty.pc \in {"render", "between"}
    /\ tty' = IF tty.isatty
              THEN [tty EXCEPT !.pc = "saved", !.old_settings = tty.mode,
                               !.chars = IF tty.pc = "render" THEN <<>>
                                         ELSE @]
              ELSE [tty EXCEPT !.pc = "exited", !.outcome = "error"]
    /\ TtyOnly

(* line 312: tty.setraw(fd) *)
SetRaw ==
    /\ tty.pc = "saved"
    /\ \/ tty' = [tty EXCEPT !.pc = "raw", !.mode = "raw"]
       \/ tty' = [read_single_keypress(tty, "error") EXCEPT !.pc = "exited"]
    /\ TtyOnly

(* lines 313-316 and 319-336: the read returns a character; get_key        *)
(* returns a key or reads on; q and b end the navigator                    *)
ReadChar ==
    /\ tty.pc = "raw"
    /\ \E ch \in TtyChars :
         LET t == read_single_keypress(tty, "char")
             chars == Append(tty.chars, ch)
         IN  tty' = IF ~Complete(chars)
                    THEN [t EXCEPT !.pc = "between", !.chars = chars]
                    ELSE [t EXCEPT !.chars = chars,
                                   !.key = get_key(chars),
                                   !.pc = IF get_key(chars) \in
                                               {"QUIT", "BACK"}
                                          THEN "exited" ELSE "render"]
    /\ TtyOnly

(* the read raises, or Ctrl-C / SIGINT arrives while it waits *)
ReadFails ==
    /\ tty.pc = "raw"
    /\ \E outcome \in {"error", "interrupt"} :
         tty' = [read_single_keypress(tty, outcome) EXCEPT !.pc = "exited"]
    /\ TtyOnly

(* SIGINT outside a read: while the navigator draws or fetches *)
Interrupt ==
    /\ tty.pc \in {"render", "between"}
    /\ tty' = [tty EXCEPT !.pc = "exited", !.outcome = "interrupt"]
    /\ TtyOnly

NextTty ==
    \/ TcGetAttr
    \/ SetRaw
    \/ ReadChar
    \/ ReadFails
    \/ Interrupt

SpecTty == InitTty /\ [][NextTty]_vars

----------------------------------------------------------------------------
(* C1: for every key and ttl > 0, cache.get(key, ttl) returns the stored   *)
(* value exactly when the in-memory cache holds an entry for key with      *)
(* now - timestamp < ttl and None otherwise; a get that follows set(k, v)  *)
(* returns v while less than ttl has elapsed since the set and None once   *)
(* ttl or more has elapsed.                                                *)
C1_GetIffFresh ==
    (last.op = "get" /\ last.ttl > 0) =>
        /\ last.result =
             IF last.key \in DOMAIN cache
                /\ last.at - cache[last.key].timestamp < last.ttl
             THEN cache[last.key].value
             ELSE None
        /\ last.key \in DOMAIN written =>
             last.result =
               IF last.at - written[last.key].at < last.ttl
               THEN written[last.key].value
               ELSE None

(* a get exactly ttl seconds after the set of a non-None value *)
C1_Witness ==
    /\ last.op = "get"
    /\ last.key \in DOMAIN written
    /\ written[last.key].value /= None
    /\ last.at - written[last.key].at = last.ttl
    /\ last.result = None

(* C2: get_story_ids, get_item and get_user issue no HTTP request when the *)
(* cache holds an entry for the request key younger than the configured    *)
(* TTL, and exactly one HTTP GET otherwise, after which (unless the call   *)
(* raised) the parsed body is in the cache under that key and returned.    *)
C2_CacheFirst ==
    last.op \in {"get_story_ids", "get_item", "get_user"} =>
        /\ last.fresh => last.http = 0
        /\ ~last.fresh =>
             /\ last.http = 1
             /\ ~last.raised =>
                  /\ last.key \in DOMAIN cache
                  /\ cache[last.key].value = last.result

----------------------------------------------------------------------------
(* Vocabulary of the pagination claims *)

InLoop == pc \in {"loop", "prompt"}

Clamp(x, lo, hi) == IF x < lo THEN lo ELSE IF x > hi THEN hi ELSE x

(* ceil(a / b) for a >= 0, b >= 1 *)
CeilDiv(a, b) == CHOOSE q \in 0..a : q * b >= a /\ (q - 1) * b < a

(* a step that processes the command cmd typed at the prompt *)
Typed(cmd) == pc = "prompt" /\ pc' /= "prompt" /\ out'.cmd = cmd

(* a step that renders a page *)
Rendering == pc = "loop" /\ pc' = "prompt"

(* C3: in every state of the browse_stories loop and of the search-results *)
(* loop, 1 <= current_page <= total_pages.                                 *)
C3_PageInRange ==
    InLoop => (1 <= current_page /\ current_page <= total_pages)

(* C4: when the fetched story-ID list is empty, browse_stories has         *)
(* total_pages = 1 and renders exactly one page, which is empty.           *)
C4_EmptyListOnePage ==
    (InLoop /\ command \in BrowseTypes /\ total_stories = 0) =>
        /\ total_pages = 1
        /\ current_page = 1
        /\ pc = "prompt" => stories = <<>>

(* C5: for total_items > 0, total_pages = ceil(total_items /               *)
(* stories_per_page), and page p (1 <= p <= total_pages) materializes      *)
(* exactly the ids at 0-based positions (p-1)*stories_per_page up to       *)
(* min(p*stories_per_page, total_items) - 1; every position of the list    *)
(* lies on exactly one page.                                               *)
C5_PagesPartitionList ==
    (InLoop /\ total_stories > 0) =>
        /\ total_stories = Len(story_ids)
        /\ total_pages * stories_per_page >= total_stories
        /\ (total_pages - 1) * stories_per_page < total_stories
        /\ \A p \in 1..total_pages :
             LET first == (p - 1) * stories_per_page
                 past == Min(p * stories_per_page, total_stories)
             IN  PageSlice(story_ids, p, stories_per_page, total_stories)
                   = [i \in 1..(past - first) |-> story_ids[first + i]]
        /\ \A j \in 1..total_stories :
             Cardinality({p \in 1..total_pages :
                            /\ (p - 1) * stories_per_page < j
                            /\ j <= Min(p * stories_per_page, total_stories)})
               = 1
        /\ (pc = "prompt" /\ current_page \in 1..total_pages) =>
             LET first == (current_page - 1) * stories_per_page
                 past == Min(current_page * stories_per_page, total_stories)
             IN  page_ids = [i \in 1..(past - first) |-> story_ids[first + i]]

(* 25 items at 10 per page: 3 pages, and page 3 holds exactly 5 items *)
C5_Witness ==
    /\ pc = "prompt"
    /\ total_stories = 25
    /\ stories_per_page = 10
    /\ total_pages = 3
    /\ current_page = 3
    /\ Len(page_ids) = 5

(* C6: next-page at current_page = total_pages and previous-page at        *)
(* current_page = 1 leave the page state unchanged; at any other page they *)
(* change current_page by exactly +1 and -1 and change nothing else.       *)
C6_NextPrev ==
    [][ /\ Typed("n") =>
             IF current_page = total_pages
             THEN UNCHANGED pageState
             ELSE /\ current_page' = current_page + 1
                  /\ UNCHANGED <<story_ids, total_stories, total_pages,
                                 stories_per_page>>
        /\ Typed("p") =>
             IF current_page = 1
             THEN UNCHANGED pageState
             ELSE /\ current_page' = current_page - 1
                  /\ UNCHANGED <<story_ids, total_stories, total_pages,
                                 stories_per_page>>
      ]_vars

C8_Recalculate ==
    [][ Rendering =>
          LET n == Clamp(rows - 8, 10, 20)
          IN  /\ stories_per_page' = n
              /\ n /= stories_per_page =>
                   /\ total_pages' = CeilDiv(total_stories, n)
                   /\ 1 <= current_page' /\ current_page' <= total_pages'
                   /\ current_page' = Clamp(current_page, 1, total_pages')
                   /\ UNCHANGED <<story_ids, total_stories>>
              /\ n = stories_per_page => UNCHANGED pageState
      ]_vars

(* C9: the refresh command empties the cache, then obtains the story-ID    *)
(* list through a new HTTP request, never from a cache entry written       *)
(* before the refresh, and sets total_pages to ceil(new total_items /      *)
(* stories_per_page); every item rendered after the refresh is fetched     *)
(* again rather than served from a pre-refresh cache entry.                *)
C9_RefreshRefetches ==
    /\ (pc = "loop" /\ out.cmd = "r" /\ command \in BrowseTypes) =>
         /\ last.op = "get_story_ids"
         /\ last.http = 1
         /\ story_ids = last.result.ids
         /\ total_stories = Len(story_ids)
         /\ total_pages = CeilDiv(total_stories, stories_per_page)
    /\ refreshed => DOMAIN cache \subseteq DOMAIN written
    /\ (refreshed /\ pc = "prompt") => served \subseteq DOMAIN written

(* a page shown after a refresh whose items were all fetched again, in a   *)
(* session whose cache held entries before the refresh                     *)
C9_Witness ==
    /\ refreshed
    /\ pc = "prompt"
    /\ last.http = 1
    /\ stories /= <<>>
    /\ served = {}

(* C10: when get_item fails for some ids of the page being loaded, the     *)
(* page still renders every story of that page whose fetch succeeded, in   *)
(* list order, with one inline error line per failed id, and the session   *)
(* goes on to the prompt.                                                  *)
C10_PartialPage ==
    [][ (Rendering /\ command \in BrowseTypes) =>
          LET Rendered(id) == id \notin fails'
                              /\ ItemBody(id) /= None
                              /\ ItemBody(id).type = "story"
              Failing(id) == id \in fails'
          IN  /\ stories' = SelectSeq(page_ids', Rendered)
              /\ errlines' = SelectSeq(page_ids', Failing)
              /\ pc' = "prompt"
      ]_vars

(* one failure in a 10-item page leaves the other 9 rendered *)
C10_Witness ==
    /\ pc = "prompt"
    /\ command \in BrowseTypes
    /\ Len(page_ids) = 10
    /\ Cardinality(fails) = 1
    /\ Len(errlines) = 1
    /\ Len(stories) = 9


----------------------------------------------------------------------------
(* Vocabulary of the error-handling claims *)

ClientOps == {"get_story_ids", "get_item", "get_user"}

(* C11: when the HTTP GET made by get_story_ids, get_item or get_user      *)
(* fails in transport or returns a non-success status, the operation       *)
(* raises APIRequestError (a subclass of HNCLIError) and stores nothing in *)
(* the cache for that key.                                                 *)
C11_RaisesAPIRequestError ==
    [][(last'.op \in ClientOps /\ last'.raised) =>
          /\ IsInstance(last'.exc, "APIRequestError")
          /\ IsInstance(last'.exc, "HNCLIError")
          /\ cache' = cache]_vars

(* the exit code of the command: an exception that leaves the command      *)
(* function ends the process with a non-zero code                          *)
exit_code == IF pc = "crashed" THEN 1 ELSE 0

(* C12: when fetching the story-id list fails in a browse command (top,    *)
(* new, best), at the initial fetch or on refresh, the failure is printed  *)
(* as 'Error fetching <type> stories' and is not propagated: the command   *)
(* ends with exit code 0.                                                  *)
C12_ListFailureHandled ==
    (command \in BrowseTypes /\ last.op = "get_story_ids" /\ last.raised) =>
        /\ out.msg = "Error fetching " \o command \o " stories"
        /\ exit_code = 0

(* C13: the search command invoked with --limit L never displays more than *)
(* L stories on a rendered page of results, for any number of matching     *)
(* stories.                                                                *)
C13_SearchLimit ==
    (command = "search" /\ limit /= <<>> /\ pc = "prompt") =>
        Len(stories) <= limit[1]

----------------------------------------------------------------------------
(* Claims about the on-disk mirror *)

CacheOps == {"load", "get", "set", "clear", "clear_expired"}

(* C14: after cache.clear() the in-memory map is empty and no persisted    *)
(* cache file remains, so get on any previously set key returns absent,    *)
(* in this process and after a restart that reloads the cache directory,   *)
(* until that key is set again.                                            *)
C14_ClearRemovesAll ==
    [][/\ last'.op = "clear" => cache' = <<>> /\ disk' = NoFiles
       /\ (last.op = "clear" /\ last'.op = "get") => last'.value = None
       /\ (last.op = "clear" /\ last'.op = "load") => cache' = <<>>]_vars

(* C14, amended: after cache.clear() the in-memory map is empty, so get    *)
(* on any key returns absent in this process until the key is set again;   *)
(* the cache files that remain are exactly those whose deletion failed     *)
(* (all of them when the directory operation fails); when nothing failed   *)
(* no cache file remains and a restart that reloads the directory finds    *)
(* every key absent.                                                       *)
C14_ClearBestEffort ==
    [][/\ last'.op = "clear" =>
            /\ cache' = <<>>
            /\ disk' = Restrict(disk, last'.stuck)
            /\ last'.failed = 0 => disk' = NoFiles
       /\ (last.op = "clear" /\ last'.op = "get") => last'.value = None
       /\ (last.op = "clear" /\ last.failed = 0 /\ last'.op = "load") =>
            cache' = <<>>]_vars

C14_Witness ==
    /\ last.op = "clear"
    /\ ~last.raised
    /\ last.stuck /= {}
    /\ DOMAIN disk = last.stuck
    /\ cache = <<>>

(* C15: set(key, value) stores (now, value) in memory and immediately      *)
(* writes the same [timestamp, value] pair to the per-key file; when no    *)
(* disk operation fails, after any sequence of set, clear and              *)
(* clear_expired the persisted entries are exactly the in-memory entries,  *)
(* so the load at the next process start restores exactly the in-memory    *)
(* cache of the previous process.                                          *)
C15_MirrorExact ==
    /\ [](faults = 0 => Persisted(disk) = cache)
    /\ [][/\ last'.op = "set" =>
               /\ last'.key \in DOMAIN cache'
               /\ cache'[last'.key] =
                      [timestamp |-> last'.at, value |-> last'.value]
               /\ last'.failed = 0 =>
                      /\ get_cache_file(last'.key) \in DOMAIN disk'
                      /\ disk'[get_cache_file(last'.key)] =
                             Json(<<last'.at, last'.value>>)
          /\ (last'.op = "load" /\ faults' = 0) => cache' = cache]_vars

C15_Witness ==
    /\ last.op = "load"
    /\ faults = 0
    /\ \E key \in DOMAIN cache : cache[key].timestamp > 0
    /\ Persisted(disk) = cache

(* C16: no cache operation (load at process start, get, set, clear,        *)
(* clear_expired) propagates an error to its caller when a disk read,      *)
(* write, delete or directory operation fails or when a cache file is      *)
(* malformed; malformed files are skipped without affecting well-formed    *)
(* ones.                                                                   *)
C16_NoErrorPropagates ==
    last.op \in CacheOps =>
        /\ ~last.raised
        /\ (last.op = "load" /\ last.failed = 0) => cache = Persisted(disk)

(* C17: cache_key is deterministic, and for the prefixes the client uses   *)
(* (stories, item, user), each with one argument, two calls return the     *)
(* same key exactly when the prefix and the argument are the same.         *)
C17_KeyInjective ==
    Len(probe.keys) = 2 =>
        /\ probe.keys[1] = KeyOf(probe.first)
        /\ (probe.keys[1] = probe.keys[2]) <=> (probe.first = probe.second)

C17_Witness ==
    /\ Len(probe.keys) = 2
    /\ probe.first.prefix = "item"
    /\ probe.second.prefix = "user"
    /\ probe.second.username = ToString(probe.first.item_id)
    /\ probe.keys[1] /= probe.keys[2]

----------------------------------------------------------------------------
(* Claims about the comment navigator *)

(* a key was read in state v and the navigator acted on it *)
Pressed(v, keys) ==
    /\ nav.view = v
    /\ nav' /= nav
    /\ nav'.rows = nav.rows
    /\ nav'.key \in keys

Size(n) == Len(n.parent_comments)

(* C18: in the List state with n >= 1 comments, DOWN sets the selection to *)
(* (selected + 1) mod n and UP to (selected - 1) mod n, so DOWN at the     *)
(* last item selects index 0 and UP at index 0 selects the last item;      *)
(* after any key sequence the selection is a valid index in 0..n-1.        *)
C18_SelectionWraps ==
    [][/\ (Pressed("List", {"DOWN"}) /\ Size(nav) >= 1) =>
            /\ nav'.selected = (nav.selected + 1) % Size(nav)
            /\ nav.selected = Size(nav) - 1 => nav'.selected = 0
       /\ (Pressed("List", {"UP"}) /\ Size(nav) >= 1) =>
            /\ nav'.selected = (nav.selected - 1) % Size(nav)
            /\ nav.selected = 0 => nav'.selected = Size(nav) - 1
       /\ (nav'.view \in {"List", "Expanded"} /\ Size(nav') >= 1) =>
            nav'.selected \in 0..(Size(nav') - 1)]_vars

C18_Witness ==
    /\ nav.view = "List"
    /\ Size(nav) >= 2
    /\ nav.key = "DOWN"
    /\ nav.selected = 0

(* C19: the comment navigator has exactly two states: in List, ENTER moves *)
(* to Expanded for the currently selected comment and quit/back ends the   *)
(* whole navigator; in Expanded, every key other than UP/DOWN (including   *)
(* quit and unrecognised keys) returns to List with the selection          *)
(* unchanged and does not end the navigator; an unrecognised key in List   *)
(* changes nothing.                                                        *)
C19_TwoStates ==
    [][/\ Pressed("List", {"ENTER"}) =>
            /\ nav'.view = "Expanded"
            /\ nav'.selected = nav.selected
            /\ nav'.lines[1].id = nav.parent_comments[nav.selected + 1]
       /\ Pressed("List", {"QUIT", "BACK"}) => nav'.view = "Done"
       /\ Pressed("Expanded", {"ENTER", "QUIT", "BACK", "None"}) =>
            /\ nav'.view = "List"
            /\ nav'.selected = nav.selected
            /\ nav'.parent_comments = nav.parent_comments
       /\ Pressed("Expanded", {"UP", "DOWN"}) => nav'.view = "Expanded"
       /\ Pressed("List", {"None"}) => nav' = [nav EXCEPT !.key = "None"]
      ]_vars

(* C20: in the Expanded state, in every reachable state                    *)
(* 0 <= offset <= max(0, buffer_length - view_height); UP and DOWN move    *)
(* the offset by exactly one line, except at the lower and upper bound     *)
(* respectively, where they leave it unchanged.                            *)
C20_OffsetClamped ==
    [][nav'.view = "Expanded" =>
         LET bound == Max(0, Len(nav'.lines) - nav'.view_height)
         IN  /\ 0 <= nav'.offset /\ nav'.offset <= bound
             /\ Pressed("Expanded", {"UP"}) =>
                  nav'.offset =
                      IF nav.offset = 0 THEN 0 ELSE nav.offset - 1
             /\ Pressed("Expanded", {"DOWN"}) =>
                  nav'.offset =
                      IF nav.offset = bound THEN bound ELSE nav.offset + 1
      ]_vars

C20_Witness ==
    /\ nav.view = "Expanded"
    /\ nav.key = "DOWN"
    /\ nav.offset > 0
    /\ nav.offset = Len(nav.lines) - nav.view_height

----------------------------------------------------------------------------
(* C21: on entering List only the first L child ids of the story are       *)
(* fetched, L being the explicit limit when one is given and               *)
(* clamp(rows - 5, 5, 10) otherwise, and the comments listed are those of  *)
(* these ids whose fetch gave a comment (get_item did not raise and the    *)
(* item is not null) that is neither deleted nor dead, in their order.     *)
Listed(id, failed) ==
    /\ id \notin failed
    /\ CommentBody(id) /= None
    /\ CommentBody(id).marks = {}

----------------------------------------------------------------------------
(* The comment expand_comment_tree was called with *)
Root == nav.parent_comments[nav.selected + 1]

(* The pre-order flatten of the tree under id: the lines of the comment,   *)
(* then those of the trees under its kids in kids order; nothing for a     *)
(* deleted or dead comment, for a null item or for an id whose fetch       *)
(* failed, nor for what is below them.                                     *)
RECURSIVE Flatten(_, _, _)
RECURSIVE FlattenAll(_, _, _)
Flatten(id, depth, failed) ==
    IF ~Listed(id, failed) THEN <<>>
    ELSE OwnLines(CommentBody(id), depth)
         \o FlattenAll(CommentBody(id).kids, depth + 1, failed)

FlattenAll(kids, depth, failed) ==
    IF kids = <<>> THEN <<>>
    ELSE Flatten(Head(kids), depth, failed)
         \o FlattenAll(Tail(kids), depth, failed)

(* The ids below id that the traversal has to ask for: the kids of every   *)
(* kept comment it reaches                                                 *)
RECURSIVE Asked(_, _)
Asked(id, failed) ==
    IF ~Listed(id, failed) THEN {}
    ELSE Range(CommentBody(id).kids)
         \cup UNION {Asked(kid, failed) : kid \in Range(CommentBody(id).kids)}

(* the kids of the deleted and dead comments of the model *)
AllComments ==
    Range(TopLevel(MaxParents)) \cup {121, 122, 123, 131, 132, 141}

KidsOfPruned ==
    UNION {Range(CommentBody(id).kids) :
             id \in {c \in AllComments : /\ CommentBody(c) /= None
                                         /\ CommentBody(c).marks /= {}}}

(* C22: the Expanded line buffer is the depth-first pre-order flatten of   *)
(* the selected comment's tree pruned at deleted and dead nodes (and at    *)
(* the ids whose fetch failed): the lines of a kept comment come before    *)
(* those of its descendants, siblings are in kids order, no line comes     *)
(* from a deleted or dead comment or from below one, and the kids of a     *)
(* deleted or dead comment are never fetched.                              *)
C22_PreorderFlatten ==
    nav.view = "Expanded" =>
        /\ nav.lines = Flatten(Root, 0, nav.failed)
        /\ Range(nav.fetched) \cap KidsOfPruned = {}

(* C29: the fetch-and-flatten phase on entering Expanded ends having       *)
(* asked get_item for each kid of every kept comment it reaches exactly    *)
(* once and for no other id, whatever the depth; a kid whose fetch fails   *)
(* is skipped and its later siblings are still visited.                    *)
C29_EachChildOnce ==
    nav.view = "Expanded" =>
        /\ Range(nav.fetched) = Asked(Root, nav.failed)
        /\ Cardinality(Range(nav.fetched)) = Len(nav.fetched)

(* C28: when the story has child ids but no top-level comment is listed    *)
(* (all deleted, dead or failed, or a limit of 0), the List state takes    *)
(* UP, DOWN and ENTER without an exception leaving display_comments.       *)
C28_EmptyListSafe ==
    (nav.kids /= <<>> /\ nav.parent_comments = <<>>) =>
        nav.view /= "Crashed"

(* C27: browse_stories called with an explicit stories_per_page N renders  *)
(* pages of at most N stories while the terminal is not resized.  Checked  *)
(* on the first render, which no resize can precede: pc = "loop" with no   *)
(* command read yet.                                                       *)
C27_LimitHonoured ==
    [][(/\ command \in BrowseTypes
        /\ limit /= <<>>
        /\ out = NoCommand
        /\ Rendering) =>
          /\ Len(page_ids') <= limit[1]
          /\ Len(stories') <= limit[1]]_vars

----------------------------------------------------------------------------
(* C24: get_setting(key) returns the value the config file holds for the   *)
(* key when it holds one, and the built-in default of the key when the     *)
(* file lacks the key or cannot be read, parsed or written.                *)
C24_GetSetting ==
    [][(cfg'.last.op = "get_setting" /\ cfg' /= cfg) =>
         LET key == cfg'.last.key
         IN  /\ ~cfg'.last.raised
             /\ cfg'.last.result =
                  IF cfg.file.kind = "object" /\ key \in DOMAIN cfg.file.data
                  THEN cfg.file.data[key]
                  ELSE PyGet(DEFAULT_CONFIG, key, None)]_vars

(* the integer a string of decimal digits denotes *)
RECURSIVE Pow10(_)
Pow10(n) == IF n = 0 THEN 1 ELSE 10 * Pow10(n - 1)

RECURSIVE Denoted(_)
Denoted(chars) ==
    IF chars = <<>> THEN 0
    ELSE DigitVal(Head(chars)) * Pow10(Len(chars) - 1) + Denoted(Tail(chars))

(* C25: config-set passes to update_setting the integer the value denotes  *)
(* when the value is made only of decimal digits, True for true/yes/y and  *)
(* False for false/no/n in any letter case, and the string itself for any  *)
(* other value.                                                            *)
C25_Coercion ==
    cfg.last.op = "config_set" =>
        LET chars == cfg.last.value
        IN  /\ ~cfg.last.raised
            /\ cfg.last.passed =
                 IF /\ chars /= <<>>
                    /\ \A i \in DOMAIN chars :
                         chars[i] \in Range(DecimalDigits)
                 THEN IntV(Denoted(chars))
                 ELSE IF lower(chars) \in
                           {<<"t", "r", "u", "e">>, <<"y", "e", "s">>, <<"y">>}
                 THEN BoolV(TRUE)
                 ELSE IF lower(chars) \in
                           {<<"f", "a", "l", "s", "e">>, <<"n", "o">>, <<"n">>}
                 THEN BoolV(FALSE)
                 ELSE StrV(chars)

(* C26: whatever update_setting calls were made, DEFAULT_CONFIG holds the  *)
(* values it was defined with, and after a config_reset load_config        *)
(* returns exactly those.                                                  *)
C26_DefaultsIntact ==
    /\ cfg.DEFAULT_CONFIG = DEFAULT_CONFIG
    /\ (/\ cfg.last.op = "config_reset"
        /\ cfg.last.out = "Configuration reset to defaults") =>
          load_config(cfg.file, cfg.fs, cfg.DEFAULT_CONFIG).config
              = DEFAULT_CONFIG

(* C23: every read that puts the terminal in raw mode restores the         *)
(* settings it saved before control leaves the read, on return, on error   *)
(* and on interrupt; so the terminal is not in raw mode (it has the        *)
(* settings it had at the start) while the navigator renders or fetches,   *)
(* between two reads, and after the navigator has exited.                  *)
C23_RawModeRestored ==
    /\ [](tty.pc \in {"render", "between", "exited"} =>
            tty.mode = tty.initial /\ tty.mode /= "raw")
    /\ [][(tty.pc = "raw" /\ tty'.pc /= "raw") =>
            tty'.mode = tty.old_settings]_vars

(* an interrupt in the third read of an escape sequence: the navigator has *)
(* exited and the terminal has its settings back                           *)
C23_Witness ==
    /\ tty.pc = "exited"
    /\ tty.outcome = "interrupt"
    /\ tty.old_settings = tty.initial
    /\ Len(tty.chars) = 2
    /\ tty.mode = "cbreak"

====
